---- MODULE Spec2Model ----
(***************************************************************************)
(* Model of webdriver::HookProcessor (src/cpp/iedriver/HookProcessor.cpp): *)
(* the shared staging buffer (data_buffer / data_buffer_size) with its     *)
(* byte and wide-string operations, two unsynchronized callers of          *)
(* CopyDataToBuffer, the instance's hook and pipe handles with Initialize  *)
(* / Dispose / UninstallWindowsHook / PushData, and the named-pipe return  *)
(* channel written by WriteDataToPipe and read by PullData.                *)
(*                                                                         *)
(* Sizes are scaled: MAX_BUFFER_SIZE stands for the 32768-byte capacity    *)
(* and NAMED_PIPE_BUFFER_SIZE for the 1024-byte frame.  Every comparison   *)
(* of the code is kept as written, so the behaviour at, below and above    *)
(* the capacity is the code's.                                             *)
(***************************************************************************)
EXTENDS Integers, Sequences, FiniteSets, TLC

\* ------------------------------------------------------------------ bounds
\* Scaled capacity of data_buffer (#define MAX_BUFFER_SIZE 32768).
MAX_BUFFER_SIZE == 3
\* Scaled frame of the named pipe (#define NAMED_PIPE_BUFFER_SIZE 1024).
NAMED_PIPE_BUFFER_SIZE == 2
\* A source handed to CopyDataToBuffer is up to MAX_BUFFER_SIZE + MaxOver bytes.
MaxOver == 1
\* A destination size handed to CopyDataFromBuffer is up to MAX_BUFFER_SIZE + MaxDestOver.
MaxDestOver == 2
\* Number of Initialize calls on the instance.
MaxInit == 2
\* Longest message a pipe client writes.
MaxMsgLen == 5
\* Number of WriteDataToPipe calls clients make.
MaxWrites == 2
\* Longest content of the vector handed to PullData.
MaxPreLen == 1
\* Number of UninstallWindowsHook calls made on one hook handle outside Dispose.
MaxUnhooks == 2

\* --------------------------------------------------------------- constants
NULL == 0
INVALID_HANDLE_VALUE == -1
\* sizeof(wchar_t) of the build (Windows).
SizeofWchar == 2

\* A byte of a payload: zero or not.
Byte == {0, 1}
CommunicationType == {"OneWay", "TwoWay"}
\* settings.window_handle: NULL or a window of the host.
WindowHandles == {NULL, 1}
\* The parties that load the module and share its SHARED segment.
Callers == {1, 2}

RECURSIVE SeqsUpTo(_, _)
SeqsUpTo(S, n) ==
  IF n = 0 THEN {<<>>}
  ELSE LET shorter == SeqsUpTo(S, n - 1)
       IN shorter \cup {Append(s, x) : s \in {t \in shorter : Len(t) = n - 1}, x \in S}

SeqsOfLen(S, n) == {s \in SeqsUpTo(S, n) : Len(s) = n}

Sources == SeqsUpTo(Byte, MAX_BUFFER_SIZE + MaxOver)
DestinationSizes == 0..(MAX_BUFFER_SIZE + MaxDestOver)
BufferSizes == 0..(MAX_BUFFER_SIZE + 1)

AllZero(s) == \A i \in 1..Len(s) : s[i] = 0
Prefix(s, n) == SubSeq(s, 1, n)
Min(a, b) == IF a < b THEN a ELSE b
CountCalls(cs, api) == Cardinality({i \in 1..Len(cs) : cs[i].api = api})

VARIABLES
  \* the SHARED data segment
  data_buffer_size, data_buffer,
  \* the HookProcessor instance
  window_handle_, hook_procedure_handle_, pipe_handle_, communication_type_,
  \* the platform: every handle it has given out, with the releases made on it,
  \* and the number of receiver windows alive
  handles, windows,
  \* PullData's frame: position, locals and the caller's vector
  pullPc, is_connected, is_read_successful, bytes_read, last_error, buffer, data,
  \* the last operation: its name, its result, the platform calls it made
  lastOp, ret, calls,
  \* CopyDataToBuffer's last source, CopyDataFromBuffer's last copy, and the
  \* size-in-use a store found at entry while that store is the last operation
  \* on the buffer (the capacity otherwise)
  stored, copied, pending, sizeAtEntry,
  \* the number of bytes the last operation's memcpy_s was to read from
  \* data_buffer, and the byte size of CopyWStringFromBuffer's local vector
  \* (both 0 when the last operation on the buffer made no such copy)
  readLen, localSize,
  \* history of the instance
  initCount, disposed, initSinceDispose, hookSinceDispose, destructed, fault,
  \* history of PullData: the vector at entry, the reads made, a failed read
  dataAtEntry, reads, readFailed,
  \* the number of WriteDataToPipe calls made by clients, and the process_id
  \* handed to the last of them
  writeCount, lastWriter,
  \* callers inside CopyDataToBuffer: each one's position and source, and
  \* whether a store has begun before the one before it was retrieved
  storePc, storeSrc, overlap

bufferVars == <<data_buffer_size, data_buffer>>
instanceVars == <<window_handle_, hook_procedure_handle_, pipe_handle_, communication_type_>>
platformVars == <<handles, windows>>
pullVars == <<pullPc, is_connected, is_read_successful, bytes_read, last_error, buffer, data>>
opVars == <<lastOp, ret, calls>>
payloadVars == <<stored, copied, pending, sizeAtEntry, readLen, localSize>>
lifeHistory == <<initCount, disposed, initSinceDispose, hookSinceDispose, destructed>>
pullHistory == <<dataAtEntry, reads, readFailed, writeCount, lastWriter>>
storeVars == <<storePc, storeSrc, overlap>>
vars == <<bufferVars, instanceVars, platformVars, pullVars, opVars,
          payloadVars, lifeHistory, pullHistory, fault, storeVars>>

\* ------------------------------------------------------ shared staging buffer
\* ClearBuffer: data_buffer_size = MAX_BUFFER_SIZE; memset(data_buffer, 0, ...).
ClearedSize == MAX_BUFFER_SIZE
ClearedBuffer == [i \in 1..MAX_BUFFER_SIZE |-> 0]

\* int HookProcessor::GetDataBufferSize() { return data_buffer_size; }
GetDataBufferSize == data_buffer_size

\* Mutation: the ClearBuffer call is missing, the shrink compares against the
\* size-in-use found at entry.
StoreSizeStale(source_data_size) ==
  IF source_data_size < data_buffer_size THEN source_data_size ELSE data_buffer_size
\* CopyDataToBuffer, after its ClearBuffer: the size-in-use it leaves.
StoreSize(source_data_size) ==
  IF source_data_size < ClearedSize THEN source_data_size ELSE ClearedSize

\* memcpy_s(data_buffer, data_buffer_size, source, data_buffer_size) on the
\* cleared buffer.
StoreBytes(source, size) ==
  [i \in 1..MAX_BUFFER_SIZE |-> IF i <= size THEN source[i] ELSE 0]

\* CopyDataFromBuffer: the number of bytes it copies.
RetrieveSize(destination_data_size) ==
  IF data_buffer_size >= destination_data_size
    THEN data_buffer_size
    ELSE destination_data_size

\* The part of a copy of n bytes that lies inside data_buffer.
InsideBytes(n) == [i \in 1..Min(n, MAX_BUFFER_SIZE) |-> data_buffer[i]]
\* A copy of n bytes reads past data_buffer when n exceeds the allocation.
ReadsPastBuffer(n) == n > MAX_BUFFER_SIZE

Live == ~fault /\ ~destructed
\* The operation copies nothing out of data_buffer.
NoCopyOut == readLen' = 0 /\ localSize' = 0

CopyDataToBuffer ==
  /\ Live
  /\ pullPc = "idle"
  /\ \E source \in Sources :
       LET size == StoreSize(Len(source))
       IN /\ data_buffer_size' = size
          /\ data_buffer' = StoreBytes(source, size)
          /\ stored' = source
  /\ sizeAtEntry' = data_buffer_size
  /\ NoCopyOut
  /\ pending' = "stored"
  /\ lastOp' = "CopyDataToBuffer"
  /\ ret' = NULL
  /\ calls' = <<>>
  /\ copied' = <<>>
  /\ UNCHANGED <<instanceVars, platformVars, pullVars, lifeHistory,
                 pullHistory, fault, storeVars>>

\* memcpy_s(destination, n, data_buffer, n) with n inside the allocation, or
\* past it with the bytes that happen to follow data_buffer in memory.
CopyDataFromBuffer ==
  /\ Live
  /\ pullPc = "idle"
  /\ \E destination_data_size \in DestinationSizes :
       LET n == RetrieveSize(destination_data_size)
       IN \E beyond \in SeqsOfLen(Byte, IF ReadsPastBuffer(n) THEN n - MAX_BUFFER_SIZE ELSE 0) :
            /\ copied' = InsideBytes(n) \o beyond
            /\ readLen' = n
            /\ ret' = destination_data_size
  /\ data_buffer_size' = ClearedSize
  /\ data_buffer' = ClearedBuffer
  /\ pending' = "consumed"
  /\ sizeAtEntry' = MAX_BUFFER_SIZE
  /\ localSize' = 0
  /\ lastOp' = "CopyDataFromBuffer"
  /\ calls' = <<>>
  /\ UNCHANGED <<instanceVars, platformVars, pullVars, lifeHistory,
                 pullHistory, fault, stored, storeVars>>

\* The same copy when the read past data_buffer leaves the mapped image: the
\* process takes an access violation inside memcpy_s and ClearBuffer never runs.
CopyDataFromBufferFault ==
  /\ Live
  /\ pullPc = "idle"
  /\ \E destination_data_size \in DestinationSizes :
       /\ ReadsPastBuffer(RetrieveSize(destination_data_size))
       /\ readLen' = RetrieveSize(destination_data_size)
       /\ ret' = destination_data_size
  /\ fault' = TRUE
  /\ copied' = <<>>
  /\ sizeAtEntry' = MAX_BUFFER_SIZE
  /\ localSize' = 0
  /\ lastOp' = "CopyDataFromBuffer"
  /\ calls' = <<>>
  /\ UNCHANGED <<bufferVars, instanceVars, platformVars, pullVars,
                 lifeHistory, pullHistory, stored, pending, storeVars>>

SetDataBufferSize ==
  /\ Live
  /\ pullPc = "idle"
  /\ \E size \in BufferSizes : data_buffer_size' = size
  /\ lastOp' = "SetDataBufferSize"
  /\ ret' = NULL
  /\ calls' = <<>>
  /\ sizeAtEntry' = MAX_BUFFER_SIZE
  /\ NoCopyOut
  /\ UNCHANGED <<data_buffer, instanceVars, platformVars, pullVars, stored, copied,
                 pending, lifeHistory, pullHistory, fault, storeVars>>

\* ClearBuffer called by itself.
ClearBuffer ==
  /\ Live
  /\ pullPc = "idle"
  /\ data_buffer_size' = ClearedSize
  /\ data_buffer' = ClearedBuffer
  /\ sizeAtEntry' = MAX_BUFFER_SIZE
  /\ NoCopyOut
  /\ lastOp' = "ClearBuffer"
  /\ ret' = NULL
  /\ calls' = <<>>
  /\ UNCHANGED <<instanceVars, platformVars, pullVars, stored, copied, pending,
                 lifeHistory, pullHistory, fault, storeVars>>

\* ------------------------------------------------------------- wide strings
\* A wchar_t as its two bytes; the null character and one other.
WChar == {<<0, 0>>, <<1, 0>>}
WStrings == SeqsUpTo(WChar, (MAX_BUFFER_SIZE + MaxOver) \div SizeofWchar)
\* &mutable_data[0] seen as mutable_data.size() * sizeof(wchar_t) bytes.
BytesOf(w) ==
  [i \in 1..(Len(w) * SizeofWchar) |->
     w[((i - 1) \div SizeofWchar) + 1][((i - 1) % SizeofWchar) + 1]]

\* CopyWStringToBuffer: CopyDataToBuffer(mutable_data_size, &mutable_data[0]).
CopyWStringToBuffer ==
  /\ Live
  /\ pullPc = "idle"
  /\ \E w \in WStrings :
       LET source == BytesOf(w)
           size == StoreSize(Len(source))
       IN /\ data_buffer_size' = size
          /\ data_buffer' = StoreBytes(source, size)
          /\ stored' = source
  /\ sizeAtEntry' = data_buffer_size
  /\ NoCopyOut
  /\ pending' = "stored"
  /\ lastOp' = "CopyWStringToBuffer"
  /\ ret' = NULL
  /\ calls' = <<>>
  /\ copied' = <<>>
  /\ UNCHANGED <<instanceVars, platformVars, pullVars, lifeHistory,
                 pullHistory, fault, storeVars>>

\* int local_buffer_size = GetDataBufferSize() + sizeof(wchar_t);
LocalBufferSize == GetDataBufferSize + SizeofWchar
\* std::vector<wchar_t> local_buffer(local_buffer_size / sizeof(wchar_t)):
\* its size in bytes.
LocalVectorBytes(local_buffer_size) ==
  (local_buffer_size \div SizeofWchar) * SizeofWchar
\* A copy of n bytes into the local vector writes past it when n exceeds it.
WritesPastLocal(n, local_bytes) == n > local_bytes
\* The local vector after the copy and local_buffer[size - 1] = L'\0'.
LocalAfterCopy(bytes, local_bytes) ==
  [i \in 1..local_bytes |-> IF i > local_bytes - SizeofWchar THEN 0 ELSE bytes[i]]
\* std::wstring data = &local_buffer[0]: the characters before the first null.
WCharAt(local, k) == SubSeq(local, (k - 1) * SizeofWchar + 1, k * SizeofWchar)
WStringOf(local) ==
  LET count == Len(local) \div SizeofWchar
      nulls == {k \in 1..count : AllZero(WCharAt(local, k))}
      first == CHOOSE k \in nulls : \A j \in nulls : k <= j
  IN [k \in 1..(first - 1) |-> WCharAt(local, k)]

\* CopyWStringFromBuffer when it completes: CopyDataFromBuffer(local_buffer_size,
\* &local_buffer[0]) copies as many bytes as it decides on, whatever the
\* vector holds; bytes read past data_buffer are what follows it in memory,
\* bytes written past the vector land in the heap.
CopyWStringFromBuffer ==
  /\ Live
  /\ pullPc = "idle"
  /\ LET local_bytes == LocalVectorBytes(LocalBufferSize)
         n == RetrieveSize(LocalBufferSize)
     IN \E beyond \in SeqsOfLen(Byte, IF ReadsPastBuffer(n) THEN n - MAX_BUFFER_SIZE ELSE 0) :
          LET bytes == InsideBytes(n) \o beyond
          IN /\ copied' = bytes
             /\ readLen' = n
             /\ localSize' = local_bytes
             /\ ret' = WStringOf(LocalAfterCopy(bytes, local_bytes))
  /\ data_buffer_size' = ClearedSize
  /\ data_buffer' = ClearedBuffer
  /\ pending' = "consumed"
  /\ sizeAtEntry' = MAX_BUFFER_SIZE
  /\ lastOp' = "CopyWStringFromBuffer"
  /\ calls' = <<>>
  /\ UNCHANGED <<instanceVars, platformVars, pullVars, lifeHistory,
                 pullHistory, fault, stored, storeVars>>

\* The same call when the copy reads past data_buffer or writes past the local
\* vector and the process does not survive it: an access violation inside
\* memcpy_s, before ClearBuffer, or a corrupted heap found when the vector is
\* freed, after it.
CopyWStringFromBufferFault ==
  /\ Live
  /\ pullPc = "idle"
  /\ LET local_bytes == LocalVectorBytes(LocalBufferSize)
         n == RetrieveSize(LocalBufferSize)
     IN /\ ReadsPastBuffer(n) \/ WritesPastLocal(n, local_bytes)
        /\ readLen' = n
        /\ localSize' = local_bytes
  /\ \E cleared \in BOOLEAN :
       IF cleared
         THEN /\ data_buffer_size' = ClearedSize
              /\ data_buffer' = ClearedBuffer
         ELSE UNCHANGED bufferVars
  /\ fault' = TRUE
  /\ copied' = <<>>
  /\ sizeAtEntry' = MAX_BUFFER_SIZE
  /\ lastOp' = "CopyWStringFromBuffer"
  /\ ret' = NULL
  /\ calls' = <<>>
  /\ UNCHANGED <<instanceVars, platformVars, pullVars, lifeHistory,
                 pullHistory, stored, pending, storeVars>>

\* -------------------------------------------- CopyDataToBuffer, step by step
\* Two parties inside CopyDataToBuffer at once.  The function takes no lock, so
\* its three steps on the SHARED segment (ClearBuffer; the shrink of
\* data_buffer_size; memcpy_s) interleave freely with the other party's.
\* Caller c's source is n bytes of value c, so the origin of a byte shows.
StoreSources(c) == {[i \in 1..n |-> c] : n \in 0..(MAX_BUFFER_SIZE + MaxOver)}
Quiescent == \A c \in Callers : storePc[c] = "idle"

\* Mutation: the size-in-use is never shrunk to the source's size.
ShrinkSizeKept(source_data_size, size) == size
\* if (source_data_size < data_buffer_size) data_buffer_size = source_data_size;
ShrinkSize(source_data_size, size) ==
  IF source_data_size < size THEN source_data_size ELSE size

\* memcpy_s(data_buffer, n, source, n): the first n bytes of the buffer are
\* overwritten, the rest is left as it is.
CopyInto(buf, bytes, n) == [i \in 1..Len(buf) |-> IF i <= n THEN bytes[i] ELSE buf[i]]

\* Entry of CopyDataToBuffer(source_data_size, source).
StoreBegin(c) ==
  /\ Live
  /\ pullPc = "idle"
  /\ storePc[c] = "idle"
  /\ \E source \in StoreSources(c) : storeSrc' = [storeSrc EXCEPT ![c] = source]
  /\ storePc' = [storePc EXCEPT ![c] = "clear"]
  /\ overlap' = (~Quiescent \/ pending = "stored")
  /\ UNCHANGED <<bufferVars, instanceVars, platformVars, pullVars, opVars,
                 payloadVars, lifeHistory, pullHistory, fault>>

\* ClearBuffer();
StoreClear(c) ==
  /\ Live
  /\ storePc[c] = "clear"
  /\ data_buffer_size' = ClearedSize
  /\ data_buffer' = ClearedBuffer
  /\ storePc' = [storePc EXCEPT ![c] = "shrink"]
  /\ UNCHANGED <<instanceVars, platformVars, pullVars, opVars, payloadVars,
                 lifeHistory, pullHistory, fault, storeSrc, overlap>>

\* The shrink, against the size-in-use as it is now.
StoreShrink(c) ==
  /\ Live
  /\ storePc[c] = "shrink"
  /\ data_buffer_size' = ShrinkSize(Len(storeSrc[c]), data_buffer_size)
  /\ storePc' = [storePc EXCEPT ![c] = "copy"]
  /\ UNCHANGED <<data_buffer, instanceVars, platformVars, pullVars, opVars,
                 payloadVars, lifeHistory, pullHistory, fault, storeSrc, overlap>>

\* The copy, of as many bytes as the size-in-use says now.  When that is more
\* than the source holds, memcpy_s reads past the source: the bytes that
\* follow it in the caller's memory are copied.
StoreCopy(c) ==
  /\ Live
  /\ storePc[c] = "copy"
  /\ LET n == data_buffer_size
         over == IF n > Len(storeSrc[c]) THEN n - Len(storeSrc[c]) ELSE 0
     IN \E beyond \in SeqsOfLen(Byte, over) :
          data_buffer' = CopyInto(data_buffer, storeSrc[c] \o beyond, n)
  /\ storePc' = [storePc EXCEPT ![c] = "idle"]
  /\ stored' = storeSrc[c]
  /\ NoCopyOut
  /\ pending' = "stored"
  /\ copied' = <<>>
  /\ lastOp' = "CopyDataToBuffer"
  /\ ret' = NULL
  /\ calls' = <<>>
  /\ UNCHANGED <<data_buffer_size, instanceVars, platformVars, pullVars,
                 lifeHistory, pullHistory, fault, storeSrc, overlap, sizeAtEntry>>

\* The same copy when the read past the source leaves the caller's mapped
\* memory: access violation inside memcpy_s.
StoreCopyFault(c) ==
  /\ Live
  /\ storePc[c] = "copy"
  /\ data_buffer_size > Len(storeSrc[c])
  /\ fault' = TRUE
  /\ lastOp' = "CopyDataToBuffer"
  /\ ret' = NULL
  /\ calls' = <<>>
  /\ UNCHANGED <<bufferVars, instanceVars, platformVars, pullVars, payloadVars,
                 lifeHistory, pullHistory, storeVars>>

\* A retrieval made when no party is inside CopyDataToBuffer.
RetrieveAfterStores ==
  /\ Quiescent
  /\ CopyDataFromBuffer
RetrieveAfterStoresFault ==
  /\ Quiescent
  /\ CopyDataFromBufferFault

\* ------------------------------------------------------------ the platform
\* A handle the platform gave out: what it is, the thread a hook is scoped to,
\* the CloseHandle / UnhookWindowsHookEx calls made on it so far and, for a pipe
\* instance, its client end ("none", "closed" once a client has come and gone),
\* the unread part of the message in it and the message as it was written.
NewPipe ==
  [kind |-> "pipe", thread |-> 0, closes |-> 0, unhooks |-> 0,
   client |-> "none", msg |-> <<>>, written |-> <<>>]
NewHook(thread_id) ==
  [kind |-> "hook", thread |-> thread_id, closes |-> 0, unhooks |-> 0,
   client |-> "none", msg |-> <<>>, written |-> <<>>]
IsHandle(hs, h) == h \in 1..Len(hs)
CloseHandle(hs, h) == IF IsHandle(hs, h) THEN [hs EXCEPT ![h].closes = @ + 1] ELSE hs
UnhookWindowsHookEx(hs, h) == IF IsHandle(hs, h) THEN [hs EXCEPT ![h].unhooks = @ + 1] ELSE hs
IsOpenPipe(hs, h) == IsHandle(hs, h) /\ hs[h].kind = "pipe" /\ hs[h].closes = 0
IsInstalledHook(hs, h) == IsHandle(hs, h) /\ hs[h].kind = "hook" /\ hs[h].unhooks = 0
\* GetWindowThreadProcessId
ThreadOf(window) == window
Call(api, arg, result) == [api |-> api, arg |-> arg, result |-> result, payload |-> <<>>]

\* ------------------------------------------------------------- Initialize
\* Mutation: the return pipe is created in every mode.
InitializeCreatesPipeAlways(type) == TRUE
\* if (settings.communication_type == TwoWay) CreateReturnPipe();
InitializeCreatesPipe(type) == type = "TwoWay"

\* InstallWindowsHook: thread_id is 0 unless a window was given.
HookThread(window) == IF window # NULL THEN ThreadOf(window) ELSE 0

Initialize ==
  /\ Live
  /\ pullPc = "idle"
  /\ initCount < MaxInit
  /\ \E window \in WindowHandles, type \in CommunicationType,
        pipeOk \in BOOLEAN, procFound \in BOOLEAN, hookOk \in BOOLEAN :
       LET createPipe == InitializeCreatesPipe(type)
           \* CreateReturnPipe: pipe_handle_ = ::CreateNamedPipe(...)
           hs1 == IF createPipe /\ pipeOk THEN Append(handles, NewPipe) ELSE handles
           pipe == IF createPipe /\ pipeOk THEN Len(hs1) ELSE INVALID_HANDLE_VALUE
           \* InstallWindowsHook: GetProcAddress, then SetWindowsHookEx
           hs2 == IF procFound /\ hookOk
                    THEN Append(hs1, NewHook(HookThread(window)))
                    ELSE hs1
           hook == IF ~procFound THEN hook_procedure_handle_
                   ELSE IF hookOk THEN Len(hs2) ELSE NULL
       IN /\ window_handle_' = window
          /\ communication_type_' = type
          /\ pipe_handle_' = pipe
          /\ hook_procedure_handle_' = hook
          /\ handles' = hs2
          /\ calls' = (IF createPipe THEN <<Call("CreateNamedPipe", pipe, pipeOk)>> ELSE <<>>)
                      \o <<Call("InstallWindowsHook", NULL, procFound /\ hookOk),
                           Call("GetProcAddress", NULL, procFound)>>
                      \o (IF procFound
                            THEN <<Call("SetWindowsHookEx", HookThread(window), hookOk)>>
                            ELSE <<>>)
          /\ ret' = (procFound /\ hookOk)
          /\ hookSinceDispose' = (hookSinceDispose \/ (procFound /\ hookOk))
  /\ initCount' = initCount + 1
  /\ initSinceDispose' = TRUE
  /\ lastOp' = "Initialize"
  /\ UNCHANGED <<bufferVars, windows, pullVars, payloadVars, disposed,
                 destructed, pullHistory, fault, storeVars>>

\* The instance as the return channel's specification takes it: initialized once.
InitializeOnce ==
  /\ initCount = 0
  /\ Initialize

\* ---------------------------------------------------------------- Dispose
\* if (this->pipe_handle_ != NULL)
DisposeClosesPipe(h) == h # NULL
\* Mutation: the field keeps the closed handle.
PipeFieldKept(h) == h
\* this->pipe_handle_ = NULL;
PipeFieldAfterClose(h) == NULL
\* if (this->hook_procedure_handle_ != NULL)
DisposeUninstallsHook(h) == h # NULL
\* Mutation: the field keeps the uninstalled hook's handle.
HookFieldKept(h) == h
\* this->hook_procedure_handle_ = NULL;
HookFieldAfterUninstall(h) == NULL

\* UninstallWindowsHook: unhook and close, behind its own null check.
UninstallWindowsHook(hs, h) ==
  IF h # NULL
    THEN [handles |-> CloseHandle(UnhookWindowsHookEx(hs, h), h),
          calls |-> <<Call("UnhookWindowsHookEx", h, TRUE), Call("CloseHandle", h, TRUE)>>]
    ELSE [handles |-> hs, calls |-> <<>>]

DisposeBody ==
  LET closePipe == DisposeClosesPipe(pipe_handle_)
      hs1 == IF closePipe THEN CloseHandle(handles, pipe_handle_) ELSE handles
      uninstall == DisposeUninstallsHook(hook_procedure_handle_)
      un == IF uninstall
              THEN UninstallWindowsHook(hs1, hook_procedure_handle_)
              ELSE [handles |-> hs1, calls |-> <<>>]
  IN /\ data_buffer_size' = ClearedSize
     /\ data_buffer' = ClearedBuffer
     /\ pipe_handle_' = IF closePipe THEN PipeFieldAfterClose(pipe_handle_) ELSE pipe_handle_
     /\ hook_procedure_handle_' =
          IF uninstall THEN HookFieldAfterUninstall(hook_procedure_handle_)
                       ELSE hook_procedure_handle_
     /\ handles' = un.handles
     /\ calls' = (IF closePipe
                    THEN <<Call("CloseHandle", pipe_handle_, IsOpenPipe(handles, pipe_handle_))>>
                    ELSE <<>>) \o un.calls
     /\ ret' = NULL
     /\ disposed' = TRUE
     /\ initSinceDispose' = FALSE
     /\ hookSinceDispose' = FALSE
     /\ sizeAtEntry' = MAX_BUFFER_SIZE
     /\ NoCopyOut
     /\ UNCHANGED <<window_handle_, communication_type_, windows, pullVars, stored,
                    copied, pending, initCount, pullHistory, fault, storeVars>>

Dispose ==
  /\ Live
  /\ pullPc = "idle"
  /\ DisposeBody
  /\ lastOp' = "Dispose"
  /\ UNCHANGED destructed

\* ~HookProcessor: this->Dispose();
Destructor ==
  /\ Live
  /\ pullPc = "idle"
  /\ DisposeBody
  /\ lastOp' = "~HookProcessor"
  /\ destructed' = TRUE

\* UninstallWindowsHook called on the instance by itself, as any member function
\* can be: the field is read, never written.
UninstallWindowsHookCall ==
  /\ Live
  /\ pullPc = "idle"
  /\ IsHandle(handles, hook_procedure_handle_)
       => handles[hook_procedure_handle_].unhooks < MaxUnhooks
  /\ LET un == UninstallWindowsHook(handles, hook_procedure_handle_)
     IN /\ handles' = un.handles
        /\ calls' = un.calls
  /\ lastOp' = "UninstallWindowsHook"
  /\ ret' = NULL
  /\ UNCHANGED <<bufferVars, instanceVars, windows, pullVars, payloadVars,
                 lifeHistory, pullHistory, fault, storeVars>>

\* --------------------------------------------------------------- PushData
\* Mutation: the null check is missing.
PushDataNeverRefuses(h) == FALSE
\* if (this->hook_procedure_handle_ == NULL) return false;
PushDataRefuses(h) == h = NULL

\* Mutation: the receiver window is destroyed only after a send that succeeded.
PushDataCallsLeaking(payload, result) ==
  <<Call("CreateWindow", NULL, TRUE),
    [api |-> "SendMessage", arg |-> window_handle_, result |-> result, payload |-> payload]>>
  \o (IF result = 0 THEN <<>> ELSE <<Call("DestroyWindow", NULL, TRUE)>>)
\* holder.Create; holder.CopyData (one SendMessage of a copy of the data);
\* holder.DestroyWindow.
PushDataCalls(payload, result) ==
  <<Call("CreateWindow", NULL, TRUE),
    [api |-> "SendMessage", arg |-> window_handle_, result |-> result, payload |-> payload]>>
  \o <<Call("DestroyWindow", NULL, TRUE)>>

PushPayloads == SeqsUpTo(Byte, 1)
\* LRESULT of ::SendMessage(..., WM_COPYDATA, ...): 0 when the target did not
\* process the message.
SendResults == {0, 1}

PushData ==
  /\ Live
  /\ pullPc = "idle"
  /\ \E payload \in PushPayloads, result \in SendResults :
       IF PushDataRefuses(hook_procedure_handle_)
         THEN /\ ret' = FALSE
              /\ calls' = <<>>
              /\ windows' = windows
         ELSE LET cs == PushDataCalls(payload, result)
              IN /\ ret' = TRUE
                 /\ calls' = cs
                 /\ windows' = windows + CountCalls(cs, "CreateWindow")
                                       - CountCalls(cs, "DestroyWindow")
  /\ lastOp' = "PushData"
  /\ UNCHANGED <<bufferVars, instanceVars, handles, pullVars, payloadVars,
                 lifeHistory, pullHistory, fault, storeVars>>

\* ------------------------------------------------------- the return channel
\* The messages a client writes: every length up to MaxMsgLen, the byte at
\* position i holding i, so that a frame dropped, repeated or out of order shows.
Messages == {[i \in 1..n |-> i] : n \in 0..MaxMsgLen}
ProcessIds == {1, 2}
\* ::CreateNamedPipe(L"\\\\.\\pipe\\nhsupspipe", ...)
ReturnPipeName == "nhsupspipe"
\* Mutation: the client addresses a pipe named after the calling process.
ClientPipeNameByProcess(process_id) ==
  IF process_id = 1 THEN "nhsupspipe1" ELSE "nhsupspipe2"
\* ::WaitNamedPipe(L"\\\\.\\pipe\\nhsupspipe", ...) and ::CreateFile of the same
\* name: process_id is not used.
ClientPipeName(process_id) == "nhsupspipe"
\* Pipe instances a client can connect to: open and never connected.
ListeningPipes(hs) == {h \in 1..Len(hs) : IsOpenPipe(hs, h) /\ hs[h].client = "none"}
\* Those of them a client addressing the given name finds.
PipesNamed(hs, name) == IF name = ReturnPipeName THEN ListeningPipes(hs) ELSE {}

\* Mutation: ::CloseHandle(pipe_handle) sits inside the block of the mode
\* switch that succeeded.
WriteClosesHandleAfterModeSwitch(openOk, modeOk) == modeOk
\* ::CloseHandle(pipe_handle) is the last statement of
\* if (INVALID_HANDLE_VALUE != pipe_handle) { ... }.
WriteClosesHandle(openOk, modeOk) == openOk

\* What the platform can answer to one WriteDataToPipe, given the pipe
\* instances listening under the name it addresses: WaitNamedPipe's result,
\* CreateFile's, SetNamedPipeHandleState's, WriteFile's, and the instance the
\* open connected to.  A call is made only when the one before it succeeded.
WriteChoices(available) ==
  {c \in BOOLEAN \X BOOLEAN \X BOOLEAN \X BOOLEAN \X (available \cup {NULL}) :
     /\ c[1] => available # {}
     /\ c[2] => c[1]
     /\ c[3] => c[2]
     /\ c[4] => c[3]
     /\ c[5] \in (IF c[2] THEN available ELSE {NULL})}

\* The body of WriteDataToPipe under one such answer: the pipe instances
\* afterwards and the calls made.  The client's handle is named by the pipe
\* instance h it is the other end of.
WriteResult(name, msg, is_pipe_available, openOk, modeOk, writeOk, h) ==
  [handles |->
     IF openOk
       THEN [handles EXCEPT
               ![h].client = IF WriteClosesHandle(openOk, modeOk)
                               THEN "closed" ELSE "open",
               ![h].msg = IF writeOk THEN <<msg>> ELSE <<>>,
               ![h].written = IF writeOk THEN msg ELSE <<>>]
       ELSE handles,
   calls |->
     <<Call("WaitNamedPipe", name, is_pipe_available)>>
     \o (IF is_pipe_available THEN <<Call("CreateFile", h, openOk)>> ELSE <<>>)
     \o (IF openOk THEN <<Call("SetNamedPipeHandleState", NULL, modeOk)>> ELSE <<>>)
     \o (IF modeOk THEN <<Call("WriteFile", Len(msg), writeOk)>> ELSE <<>>)
     \o (IF WriteClosesHandle(openOk, modeOk)
           THEN <<Call("CloseHandle", h, TRUE)>> ELSE <<>>)]

\* Everything WriteDataToPipe(process_id, data_size, data) can do from here.
WriteOutcomes(process_id, msg) ==
  LET name == ClientPipeName(process_id)
  IN {WriteResult(name, msg, c[1], c[2], c[3], c[4], c[5]) :
        c \in WriteChoices(PipesNamed(handles, name))}

\* WriteDataToPipe (the client side): wait for the pipe, open it, switch it to
\* message mode, write data_size bytes in one call, close the handle.
WriteDataToPipe ==
  /\ writeCount < MaxWrites
  /\ \E process_id \in ProcessIds, msg \in Messages :
       /\ \E r \in WriteOutcomes(process_id, msg) :
            /\ handles' = r.handles
            /\ calls' = r.calls
       /\ lastWriter' = process_id
  /\ writeCount' = writeCount + 1
  /\ lastOp' = "WriteDataToPipe"
  /\ ret' = NULL
  /\ UNCHANGED <<bufferVars, instanceVars, windows, pullVars, payloadVars, lifeHistory,
                 dataAtEntry, reads, readFailed, fault, storeVars>>

\* ::ReadFile(pipe_handle_, &buffer[0], NAMED_PIPE_BUFFER_SIZE, &bytes_read, NULL)
\* on a message-mode pipe: a message longer than the frame gives the first
\* frame and ERROR_MORE_DATA; the rest of a message ends it; with no message
\* left and the client gone the read fails with ERROR_BROKEN_PIPE.
Overwrite(buf, bytes) == [i \in 1..Len(buf) |-> IF i <= Len(bytes) THEN bytes[i] ELSE buf[i]]
ReadFile(pipe, buf) ==
  IF pipe.msg = <<>>
    THEN [ok |-> FALSE, error |-> "ERROR_BROKEN_PIPE", bytes_read |-> 0,
          buffer |-> buf, msg |-> <<>>]
  ELSE LET m == pipe.msg[1]
       IN IF Len(m) > NAMED_PIPE_BUFFER_SIZE
            THEN [ok |-> FALSE, error |-> "ERROR_MORE_DATA",
                  bytes_read |-> NAMED_PIPE_BUFFER_SIZE,
                  buffer |-> Prefix(m, NAMED_PIPE_BUFFER_SIZE),
                  msg |-> <<SubSeq(m, NAMED_PIPE_BUFFER_SIZE + 1, Len(m))>>]
            ELSE [ok |-> TRUE, error |-> "NO_ERROR", bytes_read |-> Len(m),
                  buffer |-> Overwrite(buf, m), msg |-> <<>>]
\* A read on a pipe that breaks gives nothing, and what was unread is lost.
ReadFileFails(pipe, buf) ==
  [ok |-> FALSE, error |-> "ERROR_BROKEN_PIPE", bytes_read |-> 0,
   buffer |-> buf, msg |-> <<>>]

\* data->insert(data->end(), buffer.begin(), buffer.begin() + bytes_read);
InsertFrame(vec, buf, n) == vec \o Prefix(buf, n)
\* Mutation: the loop reads on without keeping the frame.
LoopInsertSkipped(vec, buf, n) == vec
\* The loop body's insert.
LoopInsert(vec, buf, n) == InsertFrame(vec, buf, n)

\* PullData up to ConnectNamedPipe's return.  The call blocks until a client
\* has connected; on an invalid or closed handle it fails at once.  With the
\* client already gone it gives ERROR_PIPE_CONNECTED or nonzero (connected) or
\* ERROR_NO_DATA (not connected), as the timing has it.
PullDataConnect ==
  /\ Live
  /\ pullPc = "idle"
  /\ \E vec \in SeqsUpTo(Byte, MaxPreLen) :
       /\ data' = vec
       /\ dataAtEntry' = vec
  /\ buffer' = [i \in 1..NAMED_PIPE_BUFFER_SIZE |-> 0]
  /\ IF IsOpenPipe(handles, pipe_handle_)
       THEN /\ handles[pipe_handle_].client # "none"
            /\ is_connected' \in BOOLEAN
       ELSE is_connected' = FALSE
  /\ pullPc' = IF is_connected' THEN "read" ELSE "return"
  /\ reads' = 0
  /\ readFailed' = FALSE
  /\ bytes_read' = 0
  /\ is_read_successful' = FALSE
  /\ last_error' = "NO_ERROR"
  /\ lastOp' = "PullData"
  /\ ret' = NULL
  /\ calls' = <<>>
  /\ UNCHANGED <<bufferVars, instanceVars, platformVars, payloadVars, lifeHistory,
                 writeCount, lastWriter, fault, storeVars>>

\* One ReadFile of PullData and what it leaves in the frame.
DoRead ==
  \E fails \in BOOLEAN :
    LET r == IF fails THEN ReadFileFails(handles[pipe_handle_], buffer)
                      ELSE ReadFile(handles[pipe_handle_], buffer)
    IN /\ is_read_successful' = r.ok
       /\ last_error' = r.error
       /\ bytes_read' = r.bytes_read
       /\ buffer' = r.buffer
       /\ handles' = [handles EXCEPT ![pipe_handle_].msg = r.msg]
       /\ reads' = reads + 1
       /\ readFailed' = (readFailed \/ fails \/ (~r.ok /\ r.error # "ERROR_MORE_DATA"))

\* The first ReadFile (line 222).
PullDataRead ==
  /\ pullPc = "read"
  /\ DoRead
  /\ pullPc' = "loop"
  /\ UNCHANGED <<bufferVars, instanceVars, windows, is_connected, data, opVars,
                 payloadVars, lifeHistory, dataAtEntry, writeCount, lastWriter, fault, storeVars>>

\* while (!is_read_successful && ERROR_MORE_DATA == ::GetLastError())
PullDataLoop ==
  /\ pullPc = "loop"
  /\ ~is_read_successful /\ last_error = "ERROR_MORE_DATA"
  /\ data' = LoopInsert(data, buffer, bytes_read)
  /\ DoRead
  /\ UNCHANGED <<bufferVars, instanceVars, windows, pullPc, is_connected, opVars,
                 payloadVars, lifeHistory, dataAtEntry, writeCount, lastWriter, fault, storeVars>>

\* The loop's exit: the final insert when the last read succeeded.
PullDataLoopExit ==
  /\ pullPc = "loop"
  /\ ~(~is_read_successful /\ last_error = "ERROR_MORE_DATA")
  /\ data' = IF is_read_successful THEN InsertFrame(data, buffer, bytes_read) ELSE data
  /\ pullPc' = "return"
  /\ UNCHANGED <<bufferVars, instanceVars, platformVars, is_connected, is_read_successful,
                 bytes_read, last_error, buffer, opVars, payloadVars, lifeHistory,
                 pullHistory, fault, storeVars>>

\* return static_cast<int>(data->size());
PullDataReturn ==
  /\ pullPc = "return"
  /\ ret' = Len(data)
  /\ lastOp' = "PullData"
  /\ calls' = <<>>
  /\ pullPc' = "idle"
  /\ UNCHANGED <<bufferVars, instanceVars, platformVars, is_connected, is_read_successful,
                 bytes_read, last_error, buffer, data, payloadVars, lifeHistory,
                 pullHistory, fault, storeVars>>

\* ------------------------------------------------------------ specifications
\* After HookProcessor::HookProcessor(), with the SHARED segment as loaded.
Init ==
  /\ data_buffer_size = MAX_BUFFER_SIZE
  /\ data_buffer = [i \in 1..MAX_BUFFER_SIZE |-> 0]
  /\ window_handle_ = NULL
  /\ hook_procedure_handle_ = NULL
  /\ pipe_handle_ = NULL
  /\ communication_type_ = "OneWay"
  /\ handles = <<>>
  /\ windows = 0
  /\ pullPc = "idle"
  /\ is_connected = FALSE
  /\ is_read_successful = FALSE
  /\ bytes_read = 0
  /\ last_error = "NO_ERROR"
  /\ buffer = <<>>
  /\ data = <<>>
  /\ lastOp = "HookProcessor"
  /\ ret = NULL
  /\ calls = <<>>
  /\ stored = <<>>
  /\ copied = <<>>
  /\ pending = "none"
  /\ sizeAtEntry = MAX_BUFFER_SIZE
  /\ readLen = 0
  /\ localSize = 0
  /\ initCount = 0
  /\ disposed = FALSE
  /\ initSinceDispose = FALSE
  /\ hookSinceDispose = FALSE
  /\ destructed = FALSE
  /\ fault = FALSE
  /\ dataAtEntry = <<>>
  /\ reads = 0
  /\ readFailed = FALSE
  /\ writeCount = 0
  /\ lastWriter = 0
  /\ storePc = [c \in Callers |-> "idle"]
  /\ storeSrc = [c \in Callers |-> <<>>]
  /\ overlap = FALSE

\* The shared staging buffer and the operations on it.
NextBuffer ==
  \/ CopyDataToBuffer
  \/ CopyDataFromBuffer
  \/ CopyDataFromBufferFault
  \/ SetDataBufferSize
  \/ Dispose

SpecBuffer == Init /\ [][NextBuffer]_vars

\* The instance's lifecycle and the synchronous push.
Next ==
  \/ Initialize
  \/ Dispose
  \/ Destructor
  \/ PushData

Spec == Init /\ [][Next]_vars

\* The return channel: the instance creates it, a client writes, PullData reads.
NextPipe ==
  \/ InitializeOnce
  \/ WriteDataToPipe
  \/ PullDataConnect
  \/ PullDataRead
  \/ PullDataLoop
  \/ PullDataLoopExit
  \/ PullDataReturn

SpecPipe == Init /\ [][NextPipe]_vars

\* The buffer with its byte and wide-string operations; SetDataBufferSize is
\* not called.
NextWString ==
  \/ CopyDataToBuffer
  \/ CopyDataFromBuffer
  \/ CopyDataFromBufferFault
  \/ CopyWStringToBuffer
  \/ CopyWStringFromBuffer
  \/ CopyWStringFromBufferFault
  \/ ClearBuffer
  \/ Dispose

SpecWString == Init /\ [][NextWString]_vars

\* Two parties storing into the shared buffer with no lock, and retrievals.
NextStore ==
  \/ \E c \in Callers : StoreBegin(c)
  \/ \E c \in Callers : StoreClear(c)
  \/ \E c \in Callers : StoreShrink(c)
  \/ \E c \in Callers : StoreCopy(c)
  \/ \E c \in Callers : StoreCopyFault(c)
  \/ RetrieveAfterStores
  \/ RetrieveAfterStoresFault

SpecStore == Init /\ [][NextStore]_vars

\* The hook's installation and removal, with UninstallWindowsHook as an
\* operation of its own.
NextHook ==
  \/ Initialize
  \/ UninstallWindowsHookCall
  \/ Dispose
  \/ PushData

SpecHook == Init /\ [][NextHook]_vars

\* ------------------------------------------------------------------ claims
IsDispose(op) == op \in {"Dispose", "~HookProcessor"}

\* C1: a CopyDataFromBuffer that directly follows CopyDataToBuffer of a source b
\* no longer than the capacity completes, for every destination size, with b
\* as the first Len(b) bytes copied, and leaves the size-in-use at the
\* capacity and the buffer all zero.
C1_RoundTrip ==
  [][(lastOp = "CopyDataToBuffer" /\ Len(stored) <= MAX_BUFFER_SIZE
      /\ lastOp' = "CopyDataFromBuffer")
     => /\ ~fault'
        /\ Len(copied') >= Len(stored)
        /\ Prefix(copied', Len(stored)) = stored
        /\ data_buffer_size' = MAX_BUFFER_SIZE
        /\ AllZero(data_buffer')]_vars

\* C2: after CopyDataToBuffer of a source longer than the capacity, a
\* CopyDataFromBuffer that completes copies exactly the first capacity bytes
\* of the source, whatever destination size it is given.
C2_TruncationBoundary ==
  [][(lastOp = "CopyDataToBuffer" /\ Len(stored) > MAX_BUFFER_SIZE
      /\ lastOp' = "CopyDataFromBuffer" /\ ~fault')
     => copied' = Prefix(stored, MAX_BUFFER_SIZE)]_vars

\* C3: a CopyDataFromBuffer that completes after an earlier CopyDataFromBuffer,
\* with no CopyDataToBuffer between the two, copies only zero bytes.
C3_SingleConsumption ==
  [][(pending = "consumed" /\ lastOp' = "CopyDataFromBuffer" /\ ~fault')
     => AllZero(copied')]_vars

\* C4: PushData on a null hook handle returns false, creates no receiver window
\* and sends nothing; PushData returns true only when a hook was installed
\* with success since the last Dispose.
C4_ModeGating ==
  lastOp = "PushData" =>
    /\ hook_procedure_handle_ = NULL => (ret = FALSE /\ calls = <<>> /\ windows = 0)
    /\ ret = TRUE => (hookSinceDispose /\ IsInstalledHook(handles, hook_procedure_handle_))

\* C4's case: PushData has just refused on an instance whose hook installation failed.
C4_Witness ==
  /\ lastOp = "PushData"
  /\ ret = FALSE
  /\ initCount = 1
  /\ ~disposed
  /\ hook_procedure_handle_ = NULL

\* C5: no pipe handle and no hook handle is closed or unhooked more than once,
\* and a Dispose (or the destructor) entered with both handle fields null
\* makes no platform call and releases nothing.
EachReleasedAtMostOnce ==
  \A h \in 1..Len(handles) : handles[h].closes <= 1 /\ handles[h].unhooks <= 1
NullDisposeReleasesNothing ==
  (IsDispose(lastOp') /\ pipe_handle_ = NULL /\ hook_procedure_handle_ = NULL)
    => (calls' = <<>> /\ handles' = handles)
C5_NoDoubleFree == []EachReleasedAtMostOnce /\ [][NullDisposeReleasesNothing]_vars

\* C5's case: the destructor has run after an earlier Dispose that released a
\* pipe and a hook, and found nothing left to release.
C5_Witness ==
  /\ lastOp = "~HookProcessor"
  /\ calls = <<>>
  /\ \E p, k \in 1..Len(handles) :
       /\ handles[p].kind = "pipe" /\ handles[p].closes = 1
       /\ handles[k].kind = "hook" /\ handles[k].unhooks = 1 /\ handles[k].closes = 1

\* C6: with a client's message written, the connection made and every read
\* either successful or ERROR_MORE_DATA, PullData on an empty vector returns
\* with the vector equal to the message, the count equal to its length, and
\* one read per frame of the message.
FramesOf(n) ==
  IF n = 0 THEN 1 ELSE (n + NAMED_PIPE_BUFFER_SIZE - 1) \div NAMED_PIPE_BUFFER_SIZE
C6_Reassembly ==
  (lastOp = "PullData" /\ pullPc = "idle" /\ is_connected /\ ~readFailed
   /\ dataAtEntry = <<>>)
    => /\ data = handles[pipe_handle_].written
       /\ ret = Len(handles[pipe_handle_].written)
       /\ reads = FramesOf(Len(handles[pipe_handle_].written))
       /\ handles[pipe_handle_].msg = <<>>

\* C6's case: PullData has returned a message of more than two frames.
C6_Witness ==
  /\ lastOp = "PullData"
  /\ pullPc = "idle"
  /\ is_connected
  /\ ~readFailed
  /\ dataAtEntry = <<>>
  /\ Len(data) > 2 * NAMED_PIPE_BUFFER_SIZE
  /\ reads >= 3

\* C7: PushData with a hook installed creates one receiver window, sends one
\* copy-data message to the target window, destroys the receiver window, in
\* that order, leaves no receiver window alive and returns true, whatever the
\* send returned.
C7_PushDataWindow ==
  (lastOp = "PushData" /\ hook_procedure_handle_ # NULL)
    => /\ Len(calls) = 3
       /\ calls[1].api = "CreateWindow"
       /\ calls[2].api = "SendMessage"
       /\ calls[2].arg = window_handle_
       /\ calls[3].api = "DestroyWindow"
       /\ windows = 0
       /\ ret = TRUE

\* C7's case: PushData has returned after a send that the target did not process.
C7_Witness ==
  /\ lastOp = "PushData"
  /\ hook_procedure_handle_ # NULL
  /\ ret = TRUE
  /\ calls[2].result = 0

\* C8: Initialize calls CreateNamedPipe exactly when the mode is TwoWay, and
\* then before InstallWindowsHook; it calls InstallWindowsHook once whatever
\* the channel's creation gave; after a OneWay Initialize the pipe handle is no
\* open pipe; and every combination of outcomes leaves the instance initialized.
IndexOf(cs, api) == CHOOSE i \in 1..Len(cs) : cs[i].api = api
C8_InitializeOrder ==
  lastOp = "Initialize" =>
    /\ CountCalls(calls, "CreateNamedPipe")
         = (IF communication_type_ = "TwoWay" THEN 1 ELSE 0)
    /\ CountCalls(calls, "InstallWindowsHook") = 1
    /\ communication_type_ = "TwoWay"
         => IndexOf(calls, "CreateNamedPipe") < IndexOf(calls, "InstallWindowsHook")
    /\ communication_type_ = "OneWay" => ~IsOpenPipe(handles, pipe_handle_)
    /\ initSinceDispose

\* C8's case: a TwoWay Initialize whose channel creation and hook installation
\* both failed has completed.
C8_Witness ==
  /\ lastOp = "Initialize"
  /\ communication_type_ = "TwoWay"
  /\ pipe_handle_ = INVALID_HANDLE_VALUE
  /\ hook_procedure_handle_ = NULL
  /\ CountCalls(calls, "SetWindowsHookEx") = 1
  /\ initSinceDispose

\* C9, as claimed: once Dispose has run, no later call acquires a handle or
\* makes PushData return true.
C9_DisposedIsTerminal ==
  [][disposed => (Len(handles') = Len(handles) /\ ~(lastOp' = "PushData" /\ ret' = TRUE))]_vars

\* C9, amended: after Dispose and until the next Initialize both handle fields
\* are null and PushData returns false; only Initialize acquires handles.
C9_DisposedUntilInitialize ==
  /\ [](disposed /\ ~initSinceDispose =>
          /\ hook_procedure_handle_ = NULL
          /\ pipe_handle_ = NULL
          /\ lastOp = "PushData" => ret = FALSE)
  /\ [][lastOp' # "Initialize" => Len(handles') = Len(handles)]_vars

\* C9's case: PushData has refused on an instance disposed after its hook was installed.
C9_Witness ==
  /\ disposed
  /\ ~initSinceDispose
  /\ lastOp = "PushData"
  /\ ret = FALSE
  /\ \E k \in 1..Len(handles) : handles[k].kind = "hook" /\ handles[k].unhooks = 1

\* C10: every CloseHandle that Dispose issues on the pipe handle field is
\* issued on a pipe that is open.
IsHookHandle(hs, h) == IsHandle(hs, h) /\ hs[h].kind = "hook"
C10_ClosesOnlyOpenPipe ==
  IsDispose(lastOp) =>
    \A i \in 1..Len(calls) :
      (calls[i].api = "CloseHandle" /\ ~IsHookHandle(handles, calls[i].arg))
        => calls[i].result = TRUE

\* C11: a Dispose (or the destructor) that runs after an earlier Dispose, on an
\* instance whose hook and pipe handle fields are null, changes nothing: not
\* the instance, not the platform's handles, and not the shared buffer's
\* size-in-use or contents, so a payload stored since stays retrievable.
C11_RepeatedDisposeNoOp ==
  [][(disposed /\ IsDispose(lastOp')
      /\ pipe_handle_ = NULL /\ hook_procedure_handle_ = NULL)
     => /\ data_buffer_size' = data_buffer_size
        /\ data_buffer' = data_buffer
        /\ UNCHANGED <<instanceVars, platformVars>>]_vars

\* C12: in every state the instance has at most one hook installed and not
\* uninstalled and at most one pipe created and not closed, and right after
\* Dispose (or the destructor) every hook and pipe it ever acquired has been
\* released; for every sequence of Initialize and Dispose calls.
InstalledHooks(hs) == {h \in 1..Len(hs) : IsInstalledHook(hs, h)}
OpenPipes(hs) == {h \in 1..Len(hs) : IsOpenPipe(hs, h)}
C12_OneHookOnePipe ==
  /\ Cardinality(InstalledHooks(handles)) <= 1
  /\ Cardinality(OpenPipes(handles)) <= 1
  /\ IsDispose(lastOp) => (InstalledHooks(handles) = {} /\ OpenPipes(handles) = {})

\* C13: once UninstallWindowsHook has removed the instance's hook, a further
\* UninstallWindowsHook call on the instance makes no UnhookWindowsHookEx and
\* no CloseHandle call, and no hook is unhooked more than once.
HookAlreadyRemoved ==
  /\ IsHandle(handles, hook_procedure_handle_)
  /\ handles[hook_procedure_handle_].unhooks >= 1
C13_UninstallRepeatSafe ==
  /\ [][(HookAlreadyRemoved /\ lastOp' = "UninstallWindowsHook")
        => (calls' = <<>> /\ handles' = handles)]_vars
  /\ [](\A h \in 1..Len(handles) : handles[h].unhooks <= 1)

\* C14: CopyDataToBuffer takes no lock.  When no store begins before the one
\* before it has completed and been retrieved (strict turn-taking), the buffer
\* at rest holds exactly the one payload stored: the size-in-use is that
\* store's and so are the bytes, and no copy reads past its source.  When two
\* stores interleave, states are reached in which the size-in-use comes from
\* one store and the bytes from the other, and the next retrieval gives a
\* payload equal to neither caller's input (C14_Witness).
C14_TurnTakingKeepsPayload ==
  /\ (Quiescent /\ pending = "stored" /\ ~overlap)
       => /\ data_buffer_size = Min(Len(stored), MAX_BUFFER_SIZE)
          /\ data_buffer = StoreBytes(stored, data_buffer_size)
  /\ (fault /\ lastOp = "CopyDataToBuffer") => overlap

\* C14's case: after two interleaved stores, of one byte by the first caller
\* and of more by the second, a retrieval has returned one byte of the second
\* caller's: the size of one store, the bytes of the other.
C14_Witness ==
  /\ Quiescent
  /\ overlap
  /\ ~fault
  /\ lastOp = "CopyDataFromBuffer"
  /\ ret = 0
  /\ Len(storeSrc[1]) = 1
  /\ Len(storeSrc[2]) > 1
  /\ copied = <<2>>

\* C15: whatever the size-in-use was at entry (SetDataBufferSize may have set
\* it to anything), CopyDataToBuffer of a source ends with the size-in-use
\* equal to the smaller of the source's size and the capacity, the buffer's
\* first size-in-use bytes equal to the source's, every byte beyond them
\* zero, and GetDataBufferSize reporting that size.
C15_SizeInUseAfterStore ==
  lastOp = "CopyDataToBuffer" =>
    /\ data_buffer_size = Min(Len(stored), MAX_BUFFER_SIZE)
    /\ GetDataBufferSize = Min(Len(stored), MAX_BUFFER_SIZE)
    /\ \A i \in 1..MAX_BUFFER_SIZE :
         data_buffer[i] = (IF i <= data_buffer_size THEN stored[i] ELSE 0)

\* C15's case: a store of two bytes has completed that found the size-in-use
\* above the capacity, where only SetDataBufferSize can have put it.
C15_Witness ==
  /\ lastOp = "CopyDataToBuffer"
  /\ sizeAtEntry = MAX_BUFFER_SIZE + 1
  /\ Len(stored) = 2
  /\ data_buffer_size = 2
  /\ ~AllZero(stored)

\* C16: for every content the vector has at entry and every connection
\* outcome, PullData returns the number of bytes this call appended to the
\* vector; with no connection made (no client, or an invalid pipe handle) it
\* makes no read, appends nothing and returns 0.
C16_ReturnsBytesRead ==
  (lastOp = "PullData" /\ pullPc = "idle")
    => /\ ret = Len(data) - Len(dataAtEntry)
       /\ ~is_connected => (reads = 0 /\ data = dataAtEntry /\ ret = 0)

\* C17: a WriteDataToPipe that finds the pipe unavailable or cannot open it
\* issues no write and closes no handle; one that opened the pipe closes its
\* handle exactly once, as its last call, also when the switch to message
\* mode failed; at most one write is issued, right after a mode switch that
\* succeeded, of data_size bytes, which are then the bytes in the pipe.
Opened(cs) == \E i \in 1..Len(cs) : cs[i].api = "CreateFile" /\ cs[i].result
C17_WriteAbsorbsAndCloses ==
  lastOp = "WriteDataToPipe" =>
    /\ ~Opened(calls)
         => (CountCalls(calls, "WriteFile") = 0 /\ CountCalls(calls, "CloseHandle") = 0)
    /\ Opened(calls)
         => /\ CountCalls(calls, "CloseHandle") = 1
            /\ calls[Len(calls)].api = "CloseHandle"
            /\ calls[Len(calls)].arg = calls[IndexOf(calls, "CreateFile")].arg
            /\ handles[calls[Len(calls)].arg].client = "closed"
    /\ CountCalls(calls, "WriteFile") <= 1
    /\ \A i \in 1..Len(calls) :
         calls[i].api = "WriteFile"
           => /\ i > 1
              /\ calls[i - 1].api = "SetNamedPipeHandleState"
              /\ calls[i - 1].result = TRUE
              /\ calls[i].result
                   => Len(handles[calls[Len(calls)].arg].written) = calls[i].arg

\* C17's case: a WriteDataToPipe has returned that opened the pipe and whose
\* switch to message mode failed.
C17_Witness ==
  /\ lastOp = "WriteDataToPipe"
  /\ Opened(calls)
  /\ \E i \in 1..Len(calls) :
       calls[i].api = "SetNamedPipeHandleState" /\ calls[i].result = FALSE
  /\ CountCalls(calls, "WriteFile") = 0
  /\ CountCalls(calls, "CloseHandle") = 1

\* C18: from every reachable state and for every data, what WriteDataToPipe
\* can do is the same whatever process_id it is given: the same calls with
\* the same results, on the same pipe name, leaving the same bytes in the
\* same pipe instance; and every WriteDataToPipe step taken is one that every
\* other process_id could have taken with the same data.
SameForEveryProcessId ==
  \A p1, p2 \in ProcessIds, msg \in Messages :
    /\ ClientPipeName(p1) = ClientPipeName(p2)
    /\ WriteOutcomes(p1, msg) = WriteOutcomes(p2, msg)
WriteStepOpenToEveryProcessId ==
  writeCount' # writeCount
    => \E msg \in Messages : \A p \in ProcessIds :
         [handles |-> handles', calls |-> calls'] \in WriteOutcomes(p, msg)
C18_ProcessIdNoInfluence ==
  []SameForEveryProcessId /\ [][WriteStepOpenToEveryProcessId]_vars

\* C18's case: process 2 has written a message into the pipe, from a state
\* in which process 1 had written nothing.
C18_Witness ==
  /\ lastOp = "WriteDataToPipe"
  /\ lastWriter = 2
  /\ writeCount = 1
  /\ \E h \in 1..Len(handles) : handles[h].written # <<>>

\* C19: with SetDataBufferSize never called, no operation on the buffer reads
\* data_buffer past its end: every copy out of it is of at most the capacity
\* in bytes, for every destination size given to CopyDataFromBuffer and for
\* CopyWStringFromBuffer on a cleared or full buffer.
C19_ReadsInsideAllocation == readLen <= MAX_BUFFER_SIZE

\* C20: for every size-in-use below the capacity that a store can leave, odd
\* ones included, a CopyWStringFromBuffer that follows the store copies into
\* its local vector no more bytes than the vector holds, and the string it
\* returns ends at a null inside the vector.  (The capacity itself is even
\* in the build and is C19's case: there the copy reads past data_buffer.)
IsStore(op) == op \in {"CopyDataToBuffer", "CopyWStringToBuffer"}
C20_NoLocalOverflow ==
  [][(IsStore(lastOp) /\ data_buffer_size < MAX_BUFFER_SIZE
      /\ lastOp' = "CopyWStringFromBuffer")
     => /\ readLen' <= localSize'
        /\ ~fault' => (Len(ret') + 1) * SizeofWchar <= localSize']_vars

====
